---- MODULE Spec2Model ----
(***************************************************************************)
(* Model of the LoRa Cloud Device Management wire objects: the Request     *)
(* codec (Request.UnmarshalJSON and the default encoding/json encoding of  *)
(* Request) and the Hex codec (Hex.MarshalJSON / Hex.UnmarshalJSON).       *)
(*                                                                         *)
(* Text is a sequence of one-character strings.  A JSON value is a record  *)
(* with a `kind` field; an envelope is a record with the `type` and        *)
(* `param` members of the outer object.                                    *)
(***************************************************************************)
EXTENDS Integers, Sequences, FiniteSets, TLC

VARIABLES
    r,      \* the Request receiver (*Request) of the Request codec calls
    b,      \* the bytes of the last Request codec call (argument or result)
    err,    \* the error returned by the last Request codec call
    op,     \* the last Request operation
    h,      \* the Hex receiver (*Hex)
    hb,     \* the text of the last Hex codec call (argument or result)
    herr,   \* the error returned by the last Hex codec call
    hop     \* the last Hex operation

vars == <<r, b, err, op, h, hb, herr, hop>>

(***************************************************************************)
(* Bounds of the model.                                                    *)
(***************************************************************************)
MaxTextLen == 4     \* longest text handed to Hex.UnmarshalJSON
MaxBytes == 2       \* longest byte sequence constructed in memory
MaxFields == 2      \* longest GETINFO field list

(***************************************************************************)
(* Widths of the numeric types.                                            *)
(***************************************************************************)
MaxUint8 == 255
MaxInt32 == 2147483647
EUILen == 8

(***************************************************************************)
(* Errors.                                                                 *)
(***************************************************************************)
NoError == [kind |-> "nil"]
SyntaxError == [kind |-> "SyntaxError"]
UnmarshalTypeError(value, type) ==
    [kind |-> "UnmarshalTypeError", value |-> value, type |-> type]
InvalidByteError(c) == [kind |-> "InvalidByteError", c |-> c]
ErrLength == [kind |-> "ErrLength"]
errInvalidRequestType(t) == [kind |-> "invalid_request_type", type |-> t]

(***************************************************************************)
(* encoding/hex as used by the Hex codec.                                  *)
(***************************************************************************)
Quote == "\""
HexLower == <<"0","1","2","3","4","5","6","7","8","9","a","b","c","d","e","f">>
HexUpper == <<"0","1","2","3","4","5","6","7","8","9","A","B","C","D","E","F">>

\* The value of a hexadecimal digit, -1 for any other character.
fromHexChar(c) ==
    IF \E i \in 1..16 : HexLower[i] = c
    THEN (CHOOSE i \in 1..16 : HexLower[i] = c) - 1
    ELSE IF \E i \in 1..16 : HexUpper[i] = c
    THEN (CHOOSE i \in 1..16 : HexUpper[i] = c) - 1
    ELSE -1

SetMin(S) == CHOOSE x \in S : \A y \in S : x <= y

\* hex.EncodeToString: two lowercase digits per byte.
EncodeToString(bs) ==
    [i \in 1..(2 * Len(bs)) |->
        IF i % 2 = 1 THEN HexLower[(bs[(i + 1) \div 2] \div 16) + 1]
                     ELSE HexLower[(bs[i \div 2] % 16) + 1]]

\* hex.DecodeString: the bytes decoded before the first error, and the error.
DecodeString(s) ==
    LET n == Len(s) \div 2
        bad == {i \in 1..n : fromHexChar(s[2 * i - 1]) = -1 \/ fromHexChar(s[2 * i]) = -1}
        k == IF bad = {} THEN n ELSE SetMin(bad) - 1
        bytes == [i \in 1..k |-> 16 * fromHexChar(s[2 * i - 1]) + fromHexChar(s[2 * i])]
        e == IF k < n
             THEN IF fromHexChar(s[2 * k + 1]) = -1
                  THEN InvalidByteError(s[2 * k + 1])
                  ELSE InvalidByteError(s[2 * k + 2])
             ELSE IF Len(s) % 2 = 1
             THEN IF fromHexChar(s[Len(s)]) = -1
                  THEN InvalidByteError(s[Len(s)])
                  ELSE ErrLength
             ELSE NoError
    IN [bytes |-> bytes, err |-> e]

\* strings.TrimPrefix / strings.TrimSuffix with a one-character affix.
TrimPrefix(s, c) == IF Len(s) > 0 /\ s[1] = c THEN SubSeq(s, 2, Len(s)) ELSE s
TrimSuffix(s, c) == IF Len(s) > 0 /\ s[Len(s)] = c THEN SubSeq(s, 1, Len(s) - 1) ELSE s

\* Hex.MarshalJSON: the JSON string literal of the lowercase digits.
HexMarshalJSON(bs) == <<Quote>> \o EncodeToString(bs) \o <<Quote>>

\* Hex.UnmarshalJSON without the trimming of the quotes.
HexUnmarshalJSON_NoTrim(t) ==
    LET d == DecodeString(t)
    IN [h |-> d.bytes, err |-> d.err]

\* Hex.UnmarshalJSON: *h receives whatever hex.DecodeString returns, error or not.
HexUnmarshalJSON(t) ==
    LET s == TrimSuffix(TrimPrefix(t, Quote), Quote)
        d == DecodeString(s)
    IN [h |-> d.bytes, err |-> d.err]


(***************************************************************************)
(* JSON values.  `Absent` stands for a member that is not in the object    *)
(* (a nil json.RawMessage for `param`).                                    *)
(***************************************************************************)
Absent == [kind |-> "absent"]
JNull == [kind |-> "null"]
JNum(t) == [kind |-> "number", t |-> t]    \* t: the literal of the number
JStr(s) == [kind |-> "string", s |-> s]
JArr(a) == [kind |-> "array", a |-> a]
JObj(o) == [kind |-> "object", o |-> o]

FieldOrder == <<"adrmode", "joineui", "interval", "region", "opmode", "sid", "sctr", "a">>
KeyText ==
    [adrmode |-> <<"a","d","r","m","o","d","e">>,
     joineui |-> <<"j","o","i","n","e","u","i">>,
     interval |-> <<"i","n","t","e","r","v","a","l">>,
     region |-> <<"r","e","g","i","o","n">>,
     opmode |-> <<"o","p","m","o","d","e">>,
     sid |-> <<"s","i","d">>,
     sctr |-> <<"s","c","t","r">>,
     a |-> <<"a">>]

(***************************************************************************)
(* Decimal literals (strconv).  The literals of 2^31, 2^32 - 1 and 2^32    *)
(* are written out: the values are beyond the integers of the checker.     *)
(***************************************************************************)
Text2p31 == <<"2","1","4","7","4","8","3","6","4","8">>
MaxUint32Text == <<"4","2","9","4","9","6","7","2","9","5">>
Text2p32 == <<"4","2","9","4","9","6","7","2","9","6">>

RECURSIVE Digits(_)
Digits(n) == IF n < 10 THEN <<HexLower[n + 1]>>
             ELSE Digits(n \div 10) \o <<HexLower[(n % 10) + 1]>>
RECURSIVE NegDigits(_)
NegDigits(n) ==
    LET d == (10 - (n % 10)) % 10
    IN IF n > -10 THEN <<HexLower[d + 1]>>
       ELSE NegDigits((n + d) \div 10) \o <<HexLower[d + 1]>>
\* strconv.FormatInt(n, 10)
NumText(n) == IF n < 0 THEN <<"-">> \o NegDigits(n) ELSE Digits(n)

IsNeg(t) == Len(t) > 0 /\ t[1] = "-"
Mag(t) == IF IsNeg(t) THEN SubSeq(t, 2, Len(t)) ELSE t
IsDigit(c) == fromHexChar(c) \in 0..9 /\ c = HexLower[fromHexChar(c) + 1]
\* A literal with no fraction and no exponent.
IsInteger(t) == Len(Mag(t)) > 0 /\ \A i \in 1..Len(Mag(t)) : IsDigit(Mag(t)[i])
\* a <= b for two digit sequences without leading zeros.
TextLE(x, y) ==
    \/ Len(x) < Len(y)
    \/ /\ Len(x) = Len(y)
       /\ LET D == {i \in 1..Len(x) : x[i] # y[i]}
          IN D = {} \/ fromHexChar(x[SetMin(D)]) < fromHexChar(y[SetMin(D)])
RECURSIVE PosVal(_)
PosVal(d) == IF Len(d) = 1 THEN fromHexChar(d[1])
             ELSE PosVal(SubSeq(d, 1, Len(d) - 1)) * 10 + fromHexChar(d[Len(d)])
RECURSIVE NegVal(_)
NegVal(d) == IF Len(d) = 1 THEN -fromHexChar(d[1])
             ELSE NegVal(SubSeq(d, 1, Len(d) - 1)) * 10 - fromHexChar(d[Len(d)])
\* strconv.ParseInt / ParseUint of a literal that fits.
IntVal(t) == IF IsNeg(t) THEN NegVal(Mag(t)) ELSE PosVal(t)

\* The literal is an integer of the width (strconv range check, OverflowInt/Uint).
FitsUint8(t) == IsInteger(t) /\ ~IsNeg(t) /\ TextLE(t, NumText(MaxUint8))
FitsUint32(t) == IsInteger(t) /\ ~IsNeg(t) /\ TextLE(t, MaxUint32Text)
FitsInt32(t) ==
    IsInteger(t) /\ IF IsNeg(t) THEN TextLE(Mag(t), Text2p31) ELSE TextLE(t, NumText(MaxInt32))
\* The width of a Go type: ResetRequestParam is a uint8.
Fits(ty, t) ==
    CASE ty \in {"uint8", "ResetRequestParam"} -> FitsUint8(t)
      [] ty = "uint32" -> FitsUint32(t)
      [] ty = "int32" -> FitsInt32(t)

\* The bytes of a JSON value as json.RawMessage holds them (compact form).
RECURSIVE Raw(_), RawElems(_, _), RawMembers(_, _, _)
Raw(v) ==
    CASE v.kind = "null" -> <<"n","u","l","l">>
      [] v.kind = "number" -> v.t
      [] v.kind = "string" -> <<Quote>> \o v.s \o <<Quote>>
      [] v.kind = "array" -> <<"[">> \o RawElems(v.a, 1) \o <<"]">>
      [] v.kind = "object" -> <<"{">> \o RawMembers(v.o, 1, TRUE) \o <<"}">>
RawElems(a, i) ==
    IF i > Len(a) THEN <<>>
    ELSE (IF i > 1 THEN <<",">> ELSE <<>>) \o Raw(a[i]) \o RawElems(a, i + 1)
RawMembers(o, i, first) ==
    IF i > Len(FieldOrder) THEN <<>>
    ELSE IF FieldOrder[i] \in DOMAIN o
    THEN (IF first THEN <<>> ELSE <<",">>)
         \o <<Quote>> \o KeyText[FieldOrder[i]] \o <<Quote, ":">>
         \o Raw(o[FieldOrder[i]]) \o RawMembers(o, i + 1, FALSE)
    ELSE RawMembers(o, i + 1, first)

\* The JSON string whose literal is the given text.
ParseString(raw) == JStr(SubSeq(raw, 2, Len(raw) - 1))

Member(o, f) == IF f \in DOMAIN o THEN o[f] ELSE Absent

(***************************************************************************)
(* Request and its parameters.                                             *)
(***************************************************************************)
ResetRequestType == "RESET"
RejoinRequestType == "REJOIN"
MuteRequestType == "MUTE"
GetInfoRequestType == "GETINFO"
SetConfRequestType == "SETCONF"
FileDoneRequestType == "FILEDONE"
FUOTARequestType == "FUOTA"

RequestTypes ==
    {ResetRequestType, RejoinRequestType, MuteRequestType, GetInfoRequestType,
     SetConfRequestType, FileDoneRequestType, FUOTARequestType}
PayloadTypes == RequestTypes \ {RejoinRequestType, MuteRequestType}

ZeroEUI == [i \in 1..EUILen |-> 0]

\* Param == nil, and one record per implementation of requestParam.  A
\* pointer field is <<>> (nil) or <<v>>.
NilParam == [t |-> "nil"]
ResetRequestParam(n) == [t |-> "ResetRequestParam", level |-> n]
GetInfoRequestParam(fs) == [t |-> "GetInfoRequestParam", fields |-> fs]
SetConfRequestParam(adr, eui, int, reg, opm) ==
    [t |-> "SetConfRequestParam", ADRMode |-> adr, JoinEUI |-> eui,
     Interval |-> int, Region |-> reg, OpMode |-> opm]
FileDoneRequestParam(sid, sctr) ==
    [t |-> "FileDoneRequestParam", SID |-> sid, SCtr |-> sctr]
FUOTARequestParam(bs) == [t |-> "FUOTARequestParam", data |-> bs]

Request(type, param) == [Type |-> type, Param |-> param]
ZeroRequest == Request("", NilParam)

\* The zero value `var p T` of the parameter type of a discriminator.
ZeroParam(type) ==
    CASE type = ResetRequestType -> ResetRequestParam(0)
      [] type = GetInfoRequestType -> GetInfoRequestParam(<<>>)
      [] type = SetConfRequestType -> SetConfRequestParam(<<>>, ZeroEUI, <<>>, <<>>, <<>>)
      [] type = FileDoneRequestType -> FileDoneRequestParam(0, 0)
      [] type = FUOTARequestType -> FUOTARequestParam(<<>>)

(***************************************************************************)
(* encoding/json storing a JSON value into a Go value of each type.        *)
(***************************************************************************)
FirstErr(es) ==
    IF \E i \in 1..Len(es) : es[i] # NoError
    THEN es[SetMin({i \in 1..Len(es) : es[i] # NoError})]
    ELSE NoError

\* An integer of a width: null and an absent member leave the zero value, a
\* number that does not fit or a value of another kind is an UnmarshalTypeError.
DecodeInt(v, ty) ==
    IF v.kind \in {"null", "absent"} THEN [val |-> 0, err |-> NoError]
    ELSE IF v.kind = "number" /\ Fits(ty, v.t) THEN [val |-> IntVal(v.t), err |-> NoError]
    ELSE [val |-> 0, err |-> UnmarshalTypeError(v.kind, ty)]

\* A pointer to such an integer: allocated before the value is stored.
DecodePtr(v, ty) ==
    IF v.kind \in {"null", "absent"} THEN [val |-> <<>>, err |-> NoError]
    ELSE LET d == DecodeInt(v, ty) IN [val |-> <<d.val>>, err |-> d.err]

\* A string element.
DecodeStr(v) ==
    IF v.kind = "null" THEN [val |-> <<>>, err |-> NoError]
    ELSE IF v.kind = "string" THEN [val |-> v.s, err |-> NoError]
    ELSE [val |-> <<>>, err |-> UnmarshalTypeError(v.kind, "string")]

\* types.EUI64: eight bytes, written as sixteen uppercase hexadecimal digits.
EUIMarshalJSON(e) ==
    JStr([i \in 1..(2 * EUILen) |->
            IF i % 2 = 1 THEN HexUpper[(e[(i + 1) \div 2] \div 16) + 1]
                         ELSE HexUpper[(e[i \div 2] % 16) + 1]])
EUIUnmarshalJSON(v) ==
    IF v.kind = "string" /\ Len(v.s) = 2 * EUILen /\ DecodeString(v.s).err = NoError
    THEN [val |-> DecodeString(v.s).bytes, err |-> NoError]
    ELSE [val |-> ZeroEUI, err |-> [kind |-> "invalid_eui"]]

DecodeReset(v) ==
    LET d == DecodeInt(v, "ResetRequestParam")
    IN [p |-> ResetRequestParam(d.val), err |-> d.err]

DecodeGetInfo(v) ==
    IF v.kind = "null" THEN [p |-> GetInfoRequestParam(<<>>), err |-> NoError]
    ELSE IF v.kind = "array"
    THEN [p |-> GetInfoRequestParam([i \in 1..Len(v.a) |-> DecodeStr(v.a[i]).val]),
          err |-> FirstErr([i \in 1..Len(v.a) |-> DecodeStr(v.a[i]).err])]
    ELSE [p |-> GetInfoRequestParam(<<>>),
          err |-> UnmarshalTypeError(v.kind, "GetInfoRequestParam")]

DecodeSetConf(v) ==
    IF v.kind = "null" THEN [p |-> ZeroParam(SetConfRequestType), err |-> NoError]
    ELSE IF v.kind = "object"
    THEN LET adr == DecodePtr(Member(v.o, "adrmode"), "uint8")
             eui == IF "joineui" \in DOMAIN v.o
                    THEN EUIUnmarshalJSON(v.o["joineui"])
                    ELSE [val |-> ZeroEUI, err |-> NoError]
             int == DecodePtr(Member(v.o, "interval"), "uint8")
             reg == DecodePtr(Member(v.o, "region"), "uint8")
             opm == DecodePtr(Member(v.o, "opmode"), "uint32")
         IN [p |-> SetConfRequestParam(adr.val, eui.val, int.val, reg.val, opm.val),
             err |-> FirstErr(<<adr.err, eui.err, int.err, reg.err, opm.err>>)]
    ELSE [p |-> ZeroParam(SetConfRequestType),
          err |-> UnmarshalTypeError(v.kind, "SetConfRequestParam")]

DecodeFileDone(v) ==
    IF v.kind = "null" THEN [p |-> FileDoneRequestParam(0, 0), err |-> NoError]
    ELSE IF v.kind = "object"
    THEN LET sid == DecodeInt(Member(v.o, "sid"), "int32")
             sctr == DecodeInt(Member(v.o, "sctr"), "int32")
         IN [p |-> FileDoneRequestParam(sid.val, sctr.val),
             err |-> FirstErr(<<sid.err, sctr.err>>)]
    ELSE [p |-> FileDoneRequestParam(0, 0),
          err |-> UnmarshalTypeError(v.kind, "FileDoneRequestParam")]

\* FUOTARequestParam.UnmarshalJSON: the raw bytes of the value, whatever its
\* kind, go to Hex.UnmarshalJSON; *f is assigned on success only.
FUOTAUnmarshalJSON(v) ==
    LET u == HexUnmarshalJSON(Raw(v))
    IN IF u.err # NoError
       THEN [p |-> FUOTARequestParam(<<>>), err |-> u.err]
       ELSE [p |-> FUOTARequestParam(u.h), err |-> NoError]

\* FUOTARequestParam.MarshalJSON
FUOTAMarshalJSON(p) == HexMarshalJSON(p.data)

\* json.Unmarshal(br.Param, r.Param) with r.Param the fresh &p of the type.
UnmarshalParam(type, raw) ==
    IF raw = Absent THEN [p |-> ZeroParam(type), err |-> SyntaxError]
    ELSE CASE type = ResetRequestType -> DecodeReset(raw)
           [] type = GetInfoRequestType -> DecodeGetInfo(raw)
           [] type = SetConfRequestType -> DecodeSetConf(raw)
           [] type = FileDoneRequestType -> DecodeFileDone(raw)
           [] type = FUOTARequestType -> FUOTAUnmarshalJSON(raw)

(***************************************************************************)
(* The envelope.  The bytes handed to Request.UnmarshalJSON are bytes that *)
(* are not JSON (kind "invalid"), a JSON value that is no object (its      *)
(* kind), or an object with its `type` and `param` members.                *)
(***************************************************************************)
NoBytes == [kind |-> "none"]
TypeStr(t) == [kind |-> "string", name |-> t]
Envelope(type, param) == [kind |-> "object", type |-> type, param |-> param]

\* json.Unmarshal(b, &br): baseRequest and the error.
UnmarshalBase(doc) ==
    CASE doc.kind = "invalid" -> [Type |-> "", Param |-> Absent, err |-> SyntaxError]
      [] doc.kind = "null" -> [Type |-> "", Param |-> Absent, err |-> NoError]
      [] doc.kind = "object" ->
            [Type |-> IF doc.type.kind = "string" THEN doc.type.name ELSE "",
             Param |-> doc.param,
             err |-> IF doc.type.kind \in {"string", "null", "absent"}
                     THEN NoError
                     ELSE UnmarshalTypeError(doc.type.kind, "string")]
      [] OTHER -> [Type |-> "", Param |-> Absent,
                   err |-> UnmarshalTypeError(doc.kind, "baseRequest")]

\* Request.UnmarshalJSON without the default case of the switch: a
\* discriminator outside the set is taken as one that carries no payload.
UnmarshalJSON_NoDefault(rcv, doc) ==
    LET br == UnmarshalBase(doc)
    IN IF br.err # NoError THEN [r |-> rcv, err |-> br.err]
       ELSE IF br.Type \in PayloadTypes
       THEN LET d == UnmarshalParam(br.Type, br.Param)
            IN [r |-> Request(br.Type, d.p), err |-> d.err]
       ELSE [r |-> [rcv EXCEPT !.Type = br.Type], err |-> NoError]

\* Request.UnmarshalJSON with r.Type assigned before the error of the
\* envelope is looked at.
UnmarshalJSON_EarlyType(rcv, doc) ==
    LET br == UnmarshalBase(doc)
    IN IF br.err # NoError THEN [r |-> [rcv EXCEPT !.Type = br.Type], err |-> br.err]
       ELSE IF br.Type \in {RejoinRequestType, MuteRequestType}
       THEN [r |-> [rcv EXCEPT !.Type = br.Type], err |-> NoError]
       ELSE IF br.Type \in PayloadTypes
       THEN LET d == UnmarshalParam(br.Type, br.Param)
            IN [r |-> Request(br.Type, d.p), err |-> d.err]
       ELSE [r |-> [rcv EXCEPT !.Type = br.Type], err |-> errInvalidRequestType(br.Type)]

\* Request.UnmarshalJSON on the receiver rcv: the receiver after the call
\* and the error returned.
UnmarshalJSON(rcv, doc) ==
    LET br == UnmarshalBase(doc)
    IN IF br.err # NoError THEN [r |-> rcv, err |-> br.err]
       ELSE IF br.Type \in {RejoinRequestType, MuteRequestType}
       THEN [r |-> [rcv EXCEPT !.Type = br.Type], err |-> NoError]
       ELSE IF br.Type \in PayloadTypes
       THEN LET d == UnmarshalParam(br.Type, br.Param)
            IN [r |-> Request(br.Type, d.p), err |-> d.err]
       ELSE [r |-> [rcv EXCEPT !.Type = br.Type], err |-> errInvalidRequestType(br.Type)]

\* The `param` member json.Marshal writes for a non-nil Param.
MarshalParam(p) ==
    CASE p.t = "ResetRequestParam" -> JNum(NumText(p.level))
      [] p.t = "GetInfoRequestParam" -> JArr([i \in 1..Len(p.fields) |-> JStr(p.fields[i])])
      [] p.t = "SetConfRequestParam" ->
            JObj([f \in {"joineui"}
                        \cup (IF p.ADRMode # <<>> THEN {"adrmode"} ELSE {})
                        \cup (IF p.Interval # <<>> THEN {"interval"} ELSE {})
                        \cup (IF p.Region # <<>> THEN {"region"} ELSE {})
                        \cup (IF p.OpMode # <<>> THEN {"opmode"} ELSE {}) |->
                    CASE f = "adrmode" -> JNum(NumText(p.ADRMode[1]))
                      [] f = "joineui" -> EUIMarshalJSON(p.JoinEUI)
                      [] f = "interval" -> JNum(NumText(p.Interval[1]))
                      [] f = "region" -> JNum(NumText(p.Region[1]))
                      [] f = "opmode" -> JNum(NumText(p.OpMode[1]))])
      [] p.t = "FileDoneRequestParam" ->
            JObj([f \in {"sid", "sctr"} |-> IF f = "sid" THEN JNum(NumText(p.SID)) ELSE JNum(NumText(p.SCtr))])
      [] p.t = "FUOTARequestParam" -> ParseString(FUOTAMarshalJSON(p))

\* json.Marshal of a Request: `param` is omitted for a nil Param.
MarshalJSON(req) ==
    Envelope(TypeStr(req.Type),
             IF req.Param = NilParam THEN Absent ELSE MarshalParam(req.Param))

(***************************************************************************)
(* The inputs of the model.                                                *)
(***************************************************************************)
SeqsUpTo(S, n) == UNION {[1..k -> S] : k \in 0..n}

OtherTypes == {"FOO", "reset", ""}
OtherEUI == [i \in 1..EUILen |-> IF i = EUILen THEN 1 ELSE 171]
EUIs == {ZeroEUI, OtherEUI}

NumInputs ==
    {JNum(NumText(n)) : n \in {0, 12, MaxUint8, MaxUint8 + 1, -1}}
    \cup {JNum(Text2p31), JNum(<<"1", ".", "5">>)}
StrInputs == {JStr(s) : s \in {<<>>, <<"a","b">>, <<"A","B">>, <<"a","b","c">>, <<"a","b","g","0">>}}
ArrInputs == {JArr(a) : a \in SeqsUpTo({JStr(<<"a","b">>), JNum(<<"1">>)}, MaxFields)}

SetConfFields == {"adrmode", "joineui", "interval", "region", "opmode"}
SetConfValues(f) ==
    CASE f = "adrmode" -> {JNum(<<"0">>), JNum(NumText(MaxUint8 + 1))}
      [] f = "joineui" -> {EUIMarshalJSON(e) : e \in EUIs}
      [] f = "interval" -> {JNum(<<"0">>)}
      [] f = "region" -> {JNum(<<"2">>)}
      [] f = "opmode" -> {JNum(<<"0">>), JNum(Text2p32)}
SetConfInputs ==
    {JObj(o) : o \in UNION {{o \in [D -> UNION {SetConfValues(f) : f \in D}] :
                                \A f \in D : o[f] \in SetConfValues(f)} :
                            D \in {D \in SUBSET SetConfFields :
                                      Cardinality(D) <= 1 \/ D = SetConfFields}}}

FileDoneValues(f) ==
    IF f = "sid" THEN {JNum(<<"5">>), JNum(<<"-">> \o Text2p31), JNum(Text2p31)}
    ELSE {JNum(<<"1">>), JStr(<<"a","b">>)}
FileDoneInputs ==
    {JObj(o) : o \in UNION {{o \in [D -> UNION {FileDoneValues(f) : f \in D}] :
                                \A f \in D : o[f] \in FileDoneValues(f)} :
                            D \in SUBSET {"sid", "sctr"}}}

\* One payload of each JSON kind, tried with every discriminator.
CommonParams ==
    {Absent, JNull, JNum(<<"1","2">>), JNum(NumText(MaxUint8 + 1)), JStr(<<"a","b">>),
     JArr(<<>>), JObj(<<>>), JObj([f \in {"a"} |-> JNum(<<"1">>)])}

ParamsFor(t) ==
    CommonParams \cup
    (CASE t = ResetRequestType -> NumInputs
       [] t = GetInfoRequestType -> ArrInputs
       [] t = SetConfRequestType -> SetConfInputs
       [] t = FileDoneRequestType -> FileDoneInputs
       [] t = FUOTARequestType -> StrInputs \cup NumInputs
       [] OTHER -> {})

Inputs ==
    {[kind |-> k] : k \in {"invalid", "null", "number", "string", "array"}}
    \cup {Envelope(TypeStr(t), p) : t \in RequestTypes \cup OtherTypes, p \in CommonParams}
    \cup UNION {{Envelope(TypeStr(t), p) : p \in ParamsFor(t)} : t \in PayloadTypes}
    \cup {Envelope(t, p) : t \in {Absent, JNull, JNum(<<"1">>)},
                         p \in {Absent, JNum(<<"1","2">>), JObj(<<>>)}}

\* Requests built in memory: the zero value and the well-formed requests.
ByteSeqs == SeqsUpTo({18, 171}, MaxBytes)
WellFormed ==
    {Request(ResetRequestType, ResetRequestParam(n)) : n \in {0, 3, MaxUint8}}
    \cup {Request(t, NilParam) : t \in {RejoinRequestType, MuteRequestType}}
    \cup {Request(GetInfoRequestType, GetInfoRequestParam(fs)) :
              fs \in SeqsUpTo({<<"a","b">>, <<"c">>}, MaxFields)}
    \cup {Request(SetConfRequestType, UnmarshalParam(SetConfRequestType, v).p) :
              v \in {v \in SetConfInputs : UnmarshalParam(SetConfRequestType, v).err = NoError}}
    \cup {Request(FileDoneRequestType, FileDoneRequestParam(sid, sctr)) :
              sid \in {0, 5, -MaxInt32 - 1}, sctr \in {0, 1}}
    \cup {Request(FUOTARequestType, FUOTARequestParam(bs)) : bs \in ByteSeqs}

(***************************************************************************)
(* The Request codec as a state machine.                                   *)
(***************************************************************************)
Init ==
    /\ r = ZeroRequest
    /\ b = NoBytes
    /\ err = NoError
    /\ op = "init"
    /\ h = <<>>
    /\ hb = <<>>
    /\ herr = NoError
    /\ hop = "init"

\* A Request value is built in memory (`var r Request`, or a literal).
New(q) ==
    /\ r' = q
    /\ b' = NoBytes
    /\ err' = NoError
    /\ op' = "new"
    /\ UNCHANGED <<h, hb, herr, hop>>

\* json.Marshal(r)
Marshal ==
    /\ b' = MarshalJSON(r)
    /\ err' = NoError
    /\ op' = "marshal"
    /\ UNCHANGED <<r, h, hb, herr, hop>>

\* r.UnmarshalJSON(x)
Unmarshal(x) ==
    /\ LET res == UnmarshalJSON(r, x)
       IN /\ r' = res.r
          /\ err' = res.err
    /\ b' = x
    /\ op' = "unmarshal"
    /\ UNCHANGED <<h, hb, herr, hop>>

Next ==
    \/ \E q \in WellFormed \cup {ZeroRequest} : New(q)
    \/ Marshal
    \/ \E x \in Inputs \cup ({b} \ {NoBytes}) : Unmarshal(x)

Spec == Init /\ [][Next]_vars

(***************************************************************************)
(* The Hex codec as a state machine.                                       *)
(***************************************************************************)
HexAlphabet == {"a", "B", "g", Quote}
HexTexts == SeqsUpTo(HexAlphabet, MaxTextLen)

\* A Hex value is built in memory.
HexNew(bs) ==
    /\ h' = bs
    /\ hb' = <<>>
    /\ herr' = NoError
    /\ hop' = "new"
    /\ UNCHANGED <<r, b, err, op>>

\* h.MarshalJSON()
HexMarshal ==
    /\ hb' = HexMarshalJSON(h)
    /\ herr' = NoError
    /\ hop' = "marshal"
    /\ UNCHANGED <<h, r, b, err, op>>

\* h.UnmarshalJSON(t)
HexUnmarshal(t) ==
    /\ LET res == HexUnmarshalJSON(t)
       IN /\ h' = res.h
          /\ herr' = res.err
    /\ hb' = t
    /\ hop' = "unmarshal"
    /\ UNCHANGED <<r, b, err, op>>

HexNext ==
    \/ \E bs \in ByteSeqs : HexNew(bs)
    \/ HexMarshal
    \/ \E t \in HexTexts \cup {hb} : HexUnmarshal(t)

HexSpec == Init /\ [][HexNext]_vars

(***************************************************************************)
(* Properties of the Request codec.                                        *)
(***************************************************************************)
IsEnvelopeOf(doc, types) ==
    doc.kind = "object" /\ doc.type.kind = "string" /\ doc.type.name \in types

\* C1: Request round trip. For every well-formed Request q of the seven
\* variants, decoding the encoding of q succeeds and yields a Request equal
\* to q in discriminator and parameter.
C1_RoundTrip ==
    \A q \in WellFormed :
        (op = "unmarshal" /\ b = MarshalJSON(q)) => (err = NoError /\ r = q)

\* C3: Request decode is all-or-nothing. A decode that returns an error has
\* set or changed neither the discriminator nor the parameter of the Request.
C3_AllOrNothing ==
    [][(op' = "unmarshal" /\ err' # NoError) => r' = r]_vars

\* C4: Unknown discriminator. Decoding a parsable envelope whose type string
\* is none of the seven discriminators fails with InvalidRequestType carrying
\* that string, and the payload is not interpreted: whatever the content of
\* `param`, the call does no more than record the discriminator.
C4_UnknownType ==
    [][(op' = "unmarshal" /\ IsEnvelopeOf(b', STRING \ RequestTypes))
          => /\ err' = errInvalidRequestType(b'.type.name)
             /\ r' = [r EXCEPT !.Type = b'.type.name]]_vars

C4_Witness ==
    /\ op = "unmarshal"
    /\ b = Envelope(TypeStr("FOO"), JObj(<<>>))
    /\ err = errInvalidRequestType("FOO")

\* The envelope cannot be parsed: the bytes are not JSON, the value is
\* neither an object nor null, or `type` is neither a string nor null.
Unparsable(doc) ==
    \/ doc.kind \in {"invalid", "number", "string", "array"}
    \/ doc.kind = "object" /\ doc.type.kind \notin {"string", "null", "absent"}
\* The envelope has no discriminator: null, or an object without `type`.
NoType(doc) ==
    \/ doc.kind = "null"
    \/ doc.kind = "object" /\ doc.type.kind \in {"null", "absent"}
EnvelopeErrors == {"SyntaxError", "UnmarshalTypeError"}

\* C5 as stated: decoding input that is not a JSON object, or an object
\* without the `type` member, fails with the error of the envelope parse, an
\* error other than InvalidRequestType.
C5_MissingTypeIsEnvelopeError ==
    (op = "unmarshal" /\ (b.kind # "object" \/ b.type.kind = "absent"))
        => err.kind \in EnvelopeErrors

\* C5 as amended: decoding input that cannot be parsed as the envelope fails
\* with the error of encoding/json, before the dispatch (the receiver is
\* left as it was); an object without `type`, and null, are dispatched with
\* the empty discriminator and fail with InvalidRequestType carrying "".
C5_EnvelopeErrors ==
    [][op' = "unmarshal"
          => /\ Unparsable(b') => (err'.kind \in EnvelopeErrors /\ r' = r)
             /\ NoType(b') => (err' = errInvalidRequestType("") /\ r'.Type = "")]_vars

C5_Witness ==
    /\ op = "unmarshal"
    /\ b = Envelope(JNum(<<"1">>), JObj(<<>>))
    /\ err = UnmarshalTypeError("number", "string")
    /\ r # ZeroRequest

IsEvenHex(s) ==
    Len(s) % 2 = 0 /\ \A i \in 1..Len(s) : fromHexChar(s[i]) # -1
IsEUIText(v) == v.kind = "string" /\ Len(v.s) = 2 * EUILen /\ IsEvenHex(v.s)

\* The payload has the shape of the discriminator (null reads as no value).
Conforms(type, p) ==
    \/ p.kind = "null"
    \/ type = ResetRequestType /\ p.kind = "number" /\ FitsUint8(p.t)
    \/ type = GetInfoRequestType /\ p.kind = "array"
          /\ \A i \in 1..Len(p.a) : p.a[i].kind \in {"string", "null"}
    \/ type = SetConfRequestType /\ p.kind = "object"
          /\ \A f \in DOMAIN p.o \cap SetConfFields :
                \/ p.o[f].kind = "null"
                \/ f \in {"adrmode", "interval", "region"}
                      /\ p.o[f].kind = "number" /\ FitsUint8(p.o[f].t)
                \/ f = "opmode" /\ p.o[f].kind = "number" /\ FitsUint32(p.o[f].t)
                \/ f = "joineui" /\ IsEUIText(p.o[f])
    \/ type = FileDoneRequestType /\ p.kind = "object"
          /\ \A f \in DOMAIN p.o \cap {"sid", "sctr"} :
                \/ p.o[f].kind = "null"
                \/ p.o[f].kind = "number" /\ FitsInt32(p.o[f].t)
    \/ type = FUOTARequestType /\ p.kind = "string" /\ IsEvenHex(p.s)

\* C6: Payload errors. For every payload-bearing discriminator, decoding an
\* envelope whose `param` does not have the shape of the discriminator (a
\* wrong JSON kind, a number outside the declared width) fails with the
\* error of the payload; the value is never accepted or truncated.
C6_PayloadErrors ==
    (op = "unmarshal" /\ IsEnvelopeOf(b, PayloadTypes) /\ ~Conforms(b.type.name, b.param))
        => (err # NoError /\ err.kind # "invalid_request_type")

\* C7: No-payload variants. For REJOIN and MUTE decode succeeds whether
\* `param` is absent or present with any content, and the decoded Request
\* carries the discriminator and no parameter.
C7_NoPayload ==
    (op = "unmarshal" /\ IsEnvelopeOf(b, {RejoinRequestType, MuteRequestType}))
        => (err = NoError /\ r = Request(b.type.name, NilParam))

ZeroValue(f) == IF f = "joineui" THEN EUIMarshalJSON(ZeroEUI) ELSE JNum(<<"0">>)
With(o, f, v) == [g \in DOMAIN o \cup {f} |-> IF g = f THEN v ELSE o[g]]

\* C8: SETCONF optional fields. Each of the five fields is independently
\* present or absent: a field that is not in the payload is absent from the
\* decoded Request, which differs from the Request decoded from the same
\* payload with the zero value given to that field.
C8_OptionalFields ==
    (op = "unmarshal" /\ err = NoError /\ IsEnvelopeOf(b, {SetConfRequestType})
        /\ b.param.kind = "object")
        => \A f \in SetConfFields \ DOMAIN b.param.o :
              r # UnmarshalJSON(ZeroRequest,
                                Envelope(b.type, JObj(With(b.param.o, f, ZeroValue(f))))).r

\* C10: Request decode is a function of the input bytes alone. Decoding into
\* a receiver with earlier contents has the outcome of decoding into a fresh
\* Request: the same error and, on success, an equal Request.
C10_FunctionOfInput ==
    op = "unmarshal"
        => LET fresh == UnmarshalJSON(ZeroRequest, b)
           IN err = fresh.err /\ (err = NoError => r = fresh.r)

(***************************************************************************)
(* Properties of the Hex codec.                                            *)
(***************************************************************************)
Unquoted(t) ==
    IF Len(t) >= 2 /\ t[1] = Quote /\ t[Len(t)] = Quote
    THEN SubSeq(t, 2, Len(t) - 1) ELSE t
ToLower(c) == IF fromHexChar(c) = -1 THEN c ELSE HexLower[fromHexChar(c) + 1]
Lowercase(s) == [i \in 1..Len(s) |-> ToLower(s[i])]

\* C2: Hex round trip. Decoding the encoding of a byte sequence yields the
\* byte sequence; encoding what was decoded from an even-length string of
\* hexadecimal digits of either case (bare or as a JSON string) yields the
\* JSON string of its lowercase form, with no prefix and no separators.
C2_HexRoundTrip ==
    /\ \A bs \in ByteSeqs :
          (hop = "unmarshal" /\ hb = HexMarshalJSON(bs)) => (herr = NoError /\ h = bs)
    /\ (hop = "unmarshal" /\ IsEvenHex(Unquoted(hb)))
          => /\ herr = NoError
             /\ HexMarshalJSON(h) = <<Quote>> \o Lowercase(Unquoted(hb)) \o <<Quote>>

C2_Witness ==
    /\ hop = "unmarshal"
    /\ hb = HexMarshalJSON(<<171, 18>>)
    /\ h = <<171, 18>>
    /\ herr = NoError

\* C9: Hex decode failure is atomic. After stripping at most one leading and
\* one trailing quote, decode fails exactly when the rest has odd length or
\* holds a character that is no hexadecimal digit, and a failed decode leaves
\* the destination as it was before the call.
C9_HexAtomic ==
    [][hop' = "unmarshal"
          => /\ herr' # NoError <=> ~IsEvenHex(TrimSuffix(TrimPrefix(hb', Quote), Quote))
             /\ herr' # NoError => h' = h]_vars
====
